---- MODULE Spec2Model ----
(***************************************************************************)
(* Model of the cookie encoding pipeline of cookies.py as run by one pool  *)
(* worker process: parse() is called once per cookie file, encode() once   *)
(* per row, and the module-level list `cache` lives as long as the worker. *)
(*                                                                         *)
(* Numbers: a Python float is modelled as an exact rational <<n, d>> in    *)
(* lowest terms with d > 0 (the reals the specification reasons in).       *)
(* Rounding of binary64 arithmetic is not modelled.                        *)
(* A cookie value (a Python str) is a sequence of one-character strings.   *)
(***************************************************************************)
EXTENDS Integers, Sequences, FiniteSets, TLC

VARIABLES
    pc,              \* where the worker is: "idle", "parse", "encode", "failed"
    files,           \* the cookie files parsed so far: rows read and column written
    probabilities,   \* parse's local dict: char -> <<start, end>>
    cache,           \* the module-level list `cache`
    rows,            \* the rows of the current file read so far (row[1] of each)
    newdata,         \* parse's local list of encoded values
    cookie,          \* arithmetic_encode's argument
    pos,             \* number of characters arithmetic_encode has processed
    interval_start,  \* arithmetic_encode's local
    interval_size    \* arithmetic_encode's local

vars == <<pc, files, probabilities, cache, rows, newdata, cookie, pos,
          interval_start, interval_size>>

\* ------------------------------------------------------------------ bounds

MaxLen == 2        \* longest cookie value, worker specification
MaxRows == 3       \* most rows of one cookie file, worker specification
MaxFiles == 2      \* most cookie files handed to the worker
MaxLenLong == 3    \* longest cookie value, single-file specification
MaxRowsLong == 2   \* most rows of the file, single-file specification

Chars == {"a", "b"}

\* the cookie values of length at most n
Values(n) == UNION {[1..k -> Chars] : k \in 0..n}

\* ------------------------------------------------------- float arithmetic

RECURSIVE GCD(_, _)
GCD(a, b) == IF b = 0 THEN a ELSE GCD(b, a % b)

Abs(n) == IF n < 0 THEN -n ELSE n

LCM(a, b) == (a \div GCD(a, b)) * b

\* the float n / d, d > 0
Rat(n, d) == LET g == GCD(Abs(n), d) IN <<n \div g, d \div g>>

Zero == Rat(0, 1)
One == Rat(1, 1)
Half == Rat(1, 2)
Ten == Rat(10, 1)

RAdd(x, y) ==
    LET l == LCM(x[2], y[2])
    IN Rat(x[1] * (l \div x[2]) + y[1] * (l \div y[2]), l)

RSub(x, y) ==
    LET l == LCM(x[2], y[2])
    IN Rat(x[1] * (l \div x[2]) - y[1] * (l \div y[2]), l)

RMul(x, y) ==
    LET g1 == GCD(Abs(x[1]), y[2])
        g2 == GCD(Abs(y[1]), x[2])
    IN IF x[1] = 0 \/ y[1] = 0 THEN Zero
       ELSE <<(x[1] \div g1) * (y[1] \div g2), (x[2] \div g2) * (y[2] \div g1)>>

\* count / total_chars: Python raises ZeroDivisionError when total_chars = 0
Div(count, total) ==
    IF total = 0 THEN [raised |-> TRUE, value |-> Zero]
    ELSE [raised |-> FALSE, value |-> Rat(count, total)]

\* ------------------------------------------------------------ dict, list

EmptyDict == [c \in {} |-> <<Zero, Zero>>]

\* d[k] = v
Put(d, k, v) == [c \in DOMAIN d \cup {k} |-> IF c = k THEN v ELSE d[c]]

\* list.insert(i, x), i counted from 0
Insert(list, i, x) ==
    LET at == IF i > Len(list) THEN Len(list) ELSE i
    IN SubSeq(list, 1, at) \o <<x>> \o SubSeq(list, at + 1, Len(list))

\* ------------------------------------------------------- get_probability

\* Counter(cookie).items(): the distinct characters in first-occurrence
\* order, each with its number of occurrences
RECURSIVE CounterKeys(_, _)
CounterKeys(s, seen) ==
    IF s = <<>> THEN <<>>
    ELSE IF Head(s) \in seen THEN CounterKeys(Tail(s), seen)
    ELSE <<Head(s)>> \o CounterKeys(Tail(s), seen \cup {Head(s)})

Count(s, char) == Cardinality({k \in DOMAIN s : s[k] = char})

\* mutant: every distinct character counted once (a set, not a Counter)
Counter_Ones(s) ==
    LET keys == CounterKeys(s, {})
    IN [k \in DOMAIN keys |-> [char |-> keys[k], count |-> 1]]

\* mutant: the items in alphabetical order instead of first-occurrence order
Counter_Sorted(s) ==
    LET present == {c \in Chars : \E k \in DOMAIN s : s[k] = c}
        keys == IF present = {"a", "b"} THEN <<"a", "b">>
                ELSE IF present = {} THEN <<>>
                ELSE <<CHOOSE c \in present : TRUE>>
    IN [k \in DOMAIN keys |-> [char |-> keys[k], count |-> Count(s, keys[k])]]

Counter(s) ==
    LET keys == CounterKeys(s, {})
    IN [k \in DOMAIN keys |-> [char |-> keys[k], count |-> Count(s, keys[k])]]

\* mutant: new_end computed without the offset start
Rescale_NoOffset(old, start, end) ==
    <<RAdd(start, RMul(old[1], RSub(end, start))),
      RMul(old[2], RSub(end, start))>>

\* the update of a character the model already holds
Rescale(old, start, end) ==
    <<RAdd(start, RMul(old[1], RSub(end, start))),
      RAdd(start, RMul(old[2], RSub(end, start)))>>

\* one iteration of the loop over char_count.items()
ProbabilityEntry(probs, char, start, end) ==
    IF char \in DOMAIN probs THEN Rescale(probs[char], start, end)
    ELSE <<start, end>>

\* the loop of get_probability from item k on
RECURSIVE ProbabilityLoop(_, _, _, _, _)
ProbabilityLoop(char_count, k, total_chars, probs, start) ==
    IF k > Len(char_count) THEN [raised |-> FALSE, probabilities |-> probs]
    ELSE LET char == char_count[k].char
             probability == Div(char_count[k].count, total_chars)
             end == RAdd(start, probability.value)
         IN IF probability.raised
            THEN [raised |-> TRUE, probabilities |-> probs]
            ELSE ProbabilityLoop(char_count, k + 1, total_chars,
                     Put(probs, char, ProbabilityEntry(probs, char, start, end)),
                     end)

\* mutant: 1 / total_chars computed once, before the loop
get_probability_EagerDivide(c, probs) ==
    IF Div(1, Len(c)).raised THEN [raised |-> TRUE, probabilities |-> probs]
    ELSE ProbabilityLoop(Counter(c), 1, Len(c), probs, Zero)

get_probability(c, probs) == ProbabilityLoop(Counter(c), 1, Len(c), probs, Zero)

\* ----------------------------------------------------- arithmetic_encode

\* interval_start += interval_size * char_range[0]
NarrowStart(start, size, char_range) == RAdd(start, RMul(size, char_range[1]))

\* mutant: interval_size *= char_range[1]
NarrowSize_UpperOnly(size, char_range) == RMul(size, char_range[2])

\* interval_size *= char_range[1] - char_range[0]
NarrowSize(size, char_range) == RMul(size, RSub(char_range[2], char_range[1]))

\* mutant: 1 - (interval_start + 0.5 * interval_size) * 10
EncodedValue_Precedence(start, size) ==
    RSub(One, RMul(RAdd(start, RMul(Half, size)), Ten))

\* the value arithmetic_encode returns
EncodedValue(start, size) ==
    RMul(RSub(One, RAdd(start, RMul(Half, size))), Ten)

\* the whole of arithmetic_encode, from character k on
RECURSIVE arithmetic_encode(_, _, _, _, _)
arithmetic_encode(c, probs, k, start, size) ==
    IF k > Len(c) THEN EncodedValue(start, size)
    ELSE arithmetic_encode(c, probs, k + 1,
             NarrowStart(start, size, probs[c[k]]),
             NarrowSize(size, probs[c[k]]))

\* ---------------------------------------------------------------- encode

\* mutant: if cookie is cache[0], never true of a string read from the file
CacheHit_Identity(list, c) == FALSE

\* if cache: if cookie == cache[0]
CacheHit(list, c) == list # <<>> /\ c = list[1]

\* cache.insert(0, cookie); cache.insert(1, encoded_value)
CacheStore(list, c, encoded_value) == Insert(Insert(list, 0, c), 1, encoded_value)

\* the whole of one encode call on cookie c with the dict probs and the
\* cache list: the value returned and what the call leaves behind
encode(c, probs, list) ==
    IF CacheHit(list, c)
    THEN [value |-> list[2], probabilities |-> probs, cache |-> list]
    ELSE LET r == get_probability(c, probs)
             encoded_value == arithmetic_encode(c, r.probabilities, 1, Zero, One)
         IN [value |-> encoded_value, probabilities |-> r.probabilities,
             cache |-> CacheStore(list, c, encoded_value)]

\* the loop of parse over the rows from row k on
RECURSIVE ParseLoop(_, _, _, _, _)
ParseLoop(rs, k, probs, list, out) ==
    IF k > Len(rs) THEN out
    ELSE LET e == encode(rs[k], probs, list)
         IN ParseLoop(rs, k + 1, e.probabilities, e.cache, Append(out, e.value))

\* the column parse writes for a file with rows rs when the worker's cache
\* is list on entry
parse(rs, list) == ParseLoop(rs, 1, EmptyDict, list, <<>>)

\* ----------------------------------------------------------------- state

Init ==
    /\ pc = "idle"
    /\ files = <<>>
    /\ probabilities = EmptyDict
    /\ cache = <<>>
    /\ rows = <<>>
    /\ newdata = <<>>
    /\ cookie = <<>>
    /\ pos = 0
    /\ interval_start = Zero
    /\ interval_size = One

\* process(filename) calls parse(filename): a new dict, a new list
ParseBegin(maxFiles) ==
    /\ pc = "idle"
    /\ Len(files) < maxFiles
    /\ pc' = "parse"
    /\ probabilities' = EmptyDict
    /\ rows' = <<>>
    /\ newdata' = <<>>
    /\ UNCHANGED <<files, cache, cookie, pos, interval_start, interval_size>>

\* the reader yields a row whose value is v and parse calls encode on it:
\* a hit returns the cached value at once, a miss updates the model and
\* enters arithmetic_encode
EncodeCall(v, maxRows) ==
    /\ pc = "parse"
    /\ Len(rows) < maxRows
    /\ rows' = Append(rows, v)
    /\ IF CacheHit(cache, v)
       THEN /\ newdata' = Append(newdata, cache[2])
            /\ UNCHANGED <<pc, probabilities, cookie, pos, interval_start,
                           interval_size>>
       ELSE LET r == get_probability(v, probabilities)
            IN /\ probabilities' = r.probabilities
               /\ pc' = IF r.raised THEN "failed" ELSE "encode"
               /\ cookie' = v
               /\ pos' = 0
               /\ interval_start' = Zero
               /\ interval_size' = One
               /\ UNCHANGED newdata
    /\ UNCHANGED <<files, cache>>

\* one iteration of arithmetic_encode's loop over the cookie's characters
EncodeChar ==
    /\ pc = "encode"
    /\ pos < Len(cookie)
    /\ LET char_range == probabilities[cookie[pos + 1]]
       IN /\ interval_start' = NarrowStart(interval_start, interval_size, char_range)
          /\ interval_size' = NarrowSize(interval_size, char_range)
    /\ pos' = pos + 1
    /\ UNCHANGED <<pc, files, probabilities, cache, rows, newdata, cookie>>

\* arithmetic_encode returns; encode stores the pair in the cache and
\* returns the value, which parse appends to newdata
EncodeReturn ==
    /\ pc = "encode"
    /\ pos = Len(cookie)
    /\ LET encoded_value == EncodedValue(interval_start, interval_size)
       IN /\ cache' = CacheStore(cache, cookie, encoded_value)
          /\ newdata' = Append(newdata, encoded_value)
    /\ pc' = "parse"
    /\ UNCHANGED <<files, probabilities, rows, cookie, pos, interval_start,
                   interval_size>>

\* the reader is exhausted: the file is rewritten with the new column
ParseEnd ==
    /\ pc = "parse"
    /\ Len(rows) >= 1
    /\ files' = Append(files, [rows |-> rows, newdata |-> newdata])
    /\ pc' = "idle"
    /\ UNCHANGED <<probabilities, cache, rows, newdata, cookie, pos,
                   interval_start, interval_size>>

\* one pool worker, handed up to MaxFiles cookie files
Next ==
    \/ ParseBegin(MaxFiles)
    \/ \E v \in Values(MaxLen) : EncodeCall(v, MaxRows)
    \/ EncodeChar
    \/ EncodeReturn
    \/ ParseEnd

Spec == Init /\ [][Next]_vars

\* one pool worker handed a single cookie file, with longer values
NextLong ==
    \/ ParseBegin(1)
    \/ \E v \in Values(MaxLenLong) : EncodeCall(v, MaxRowsLong)
    \/ EncodeChar
    \/ EncodeReturn
    \/ ParseEnd

SpecLong == Init /\ [][NextLong]_vars

\* ---------------------------------------------------------------- claims

\* x < y and x <= y on the numbers of the model
RLt(x, y) ==
    LET l == LCM(x[2], y[2])
    IN x[1] * (l \div x[2]) < y[1] * (l \div y[2])

RLe(x, y) == x = y \/ RLt(x, y)

\* the characters of a cookie value
CharsOf(s) == {s[k] : k \in DOMAIN s}

\* the number of encode calls of the current file that have returned
Returned == Len(newdata)

\* C1: every scalar a stream gets from this worker equals the scalar the
\* stream gets when a fresh process (empty cache) parses it alone.
C1_StreamsIndependent ==
    /\ newdata = SubSeq(parse(rows, <<>>), 1, Returned)
    /\ \A f \in DOMAIN files : files[f].newdata = parse(files[f].rows, <<>>)

\* C2: two successive parse runs over the same rows write the same column.
C2_Deterministic ==
    \A f \in DOMAIN files :
        (f + 1 \in DOMAIN files /\ files[f].rows = files[f + 1].rows)
            => files[f].newdata = files[f + 1].newdata

\* the immediately preceding encode call, when there is one: its cookie and
\* the value it returned
HasPrevious == Returned >= 1 \/ files # <<>>
PreviousCookie ==
    IF Returned >= 1 THEN rows[Returned]
    ELSE files[Len(files)].rows[Len(files[Len(files)].rows)]
PreviousValue ==
    IF Returned >= 1 THEN newdata[Returned]
    ELSE files[Len(files)].newdata[Len(files[Len(files)].newdata)]

\* C3: an encode call whose cookie equals the cookie of the immediately
\* preceding encode call returns at once the value that call returned and
\* changes neither the probability model nor the cache.
C3_RepeatShortCircuit ==
    [][(/\ pc = "parse"
        /\ Len(rows') = Len(rows) + 1
        /\ HasPrevious
        /\ rows'[Len(rows')] = PreviousCookie)
       => (/\ newdata' = Append(newdata, PreviousValue)
           /\ probabilities' = probabilities
           /\ cache' = cache
           /\ pc' = "parse")]_vars

\* C3 witness: a repeated cookie was answered, the model holding entries
C3_Witness ==
    /\ pc = "parse"
    /\ Returned = Len(rows)
    /\ Returned >= 2
    /\ rows[Returned] = rows[Returned - 1]
    /\ newdata[Returned] = newdata[Returned - 1]
    /\ DOMAIN probabilities # {}

\* C4: every value encode has returned lies in [0, 10], and while
\* arithmetic_encode runs the narrowed interval stays inside [0, 1].
C4_RangeBound ==
    /\ \A k \in DOMAIN newdata : RLe(Zero, newdata[k]) /\ RLe(newdata[k], Ten)
    /\ \A f \in DOMAIN files : \A k \in DOMAIN files[f].newdata :
           RLe(Zero, files[f].newdata[k]) /\ RLe(files[f].newdata[k], Ten)
    /\ pc = "encode" =>
           /\ RLe(Zero, interval_start)
           /\ RLe(RAdd(interval_start, interval_size), One)

\* C4 witness: a value computed against a rescaled model has been returned
C4_Witness ==
    /\ pc = "parse"
    /\ Returned = 2
    /\ rows[1] # rows[2]
    /\ CharsOf(rows[1]) \cap CharsOf(rows[2]) # {}
    /\ RLt(Rat(5, 1), newdata[2])
    /\ RLt(newdata[2], Ten)

\* the sum of (hi - lo) over the characters of S that the model holds
RECURSIVE SumSpans(_, _)
SumSpans(S, probs) ==
    IF S = {} THEN Zero
    ELSE LET c == CHOOSE x \in S : TRUE
         IN RAdd(RSub(probs[c][2], probs[c][1]), SumSpans(S \ {c}, probs))

SpanSum(s, probs) == SumSpans(CharsOf(s) \cap DOMAIN probs, probs)

FirstIndex(s, c) == CHOOSE k \in DOMAIN s : s[k] = c /\ \A j \in 1..(k - 1) : s[j] # c

\* the first encode call of the first stream of a fresh worker has returned
FirstCallDone ==
    pc = "parse" /\ files = <<>> /\ Returned = 1 /\ Len(rows) = 1 /\ rows[1] # <<>>

\* C6: after the first encode call of a stream on a non-empty string s the
\* model gives the distinct characters of s, in first-occurrence order,
\* consecutive intervals of width count/len(s) from 0 to 1, and the value is
\* (1 - midpoint of the narrowed interval) * 10: 5 for aaa, 6.25 for ab.
C6_FirstCall ==
    FirstCallDone =>
        LET s == rows[1]
            lo(c) == probabilities[c][1]
            hi(c) == probabilities[c][2]
            occ(c) == Cardinality({k \in DOMAIN s : s[k] = c})
        IN /\ DOMAIN probabilities = CharsOf(s)
           /\ lo(s[1]) = Zero
           /\ \A c \in CharsOf(s) :
                 /\ RSub(hi(c), lo(c)) = Rat(occ(c), Len(s))
                 /\ \/ hi(c) = One /\ \A d \in CharsOf(s) :
                                          FirstIndex(s, d) <= FirstIndex(s, c)
                    \/ \E d \in CharsOf(s) :
                          /\ FirstIndex(s, c) < FirstIndex(s, d)
                          /\ hi(c) = lo(d)
                          /\ \A e \in CharsOf(s) :
                                \/ FirstIndex(s, e) <= FirstIndex(s, c)
                                \/ FirstIndex(s, d) <= FirstIndex(s, e)
           /\ RAdd(RMul(newdata[1], Rat(1, 10)),
                   RAdd(interval_start, RMul(Rat(1, 2), interval_size))) = One
           /\ s = <<"a", "a", "a">> =>
                 /\ probabilities["a"] = <<Rat(0, 1), Rat(1, 1)>>
                 /\ newdata[1] = Rat(5, 1)
           /\ s = <<"a", "b">> =>
                 /\ probabilities["a"] = <<Rat(0, 1), Rat(1, 2)>>
                 /\ probabilities["b"] = <<Rat(1, 2), Rat(1, 1)>>
                 /\ newdata[1] = Rat(25, 4)

\* C6 witness: the first call, on aaa, has returned 5
C6_Witness ==
    FirstCallDone /\ rows[1] = <<"a", "a", "a">> /\ newdata[1] = Rat(5, 1)

\* the cache holds an entry whose cookie is the empty string
CachedEmpty == \E k \in DOMAIN cache : k % 2 = 1 /\ cache[k] = <<>>

\* C7 as stated: encode of the empty string on a miss ends in an error: it
\* returns no value and never stores the empty string in the cache.
C7_EmptyStringFails ==
    /\ \A k \in 1..Returned : rows[k] # <<>>
    /\ ~CachedEmpty

\* C7 amended: encode of the empty string on a miss raises nothing, leaves
\* the model as it was, returns exactly 5 and stores the pair ("", 5) at
\* the front of the cache.
C7_EmptyStringEncodes ==
    /\ [](pc # "failed")
    /\ [][(pc = "parse" /\ rows' = Append(rows, <<>>) /\ ~CacheHit(cache, <<>>))
          => pc' = "encode" /\ cookie' = <<>> /\ probabilities' = probabilities]_vars
    /\ [][(pc = "encode" /\ cookie = <<>> /\ pc' # "encode")
          => /\ pc' = "parse"
             /\ newdata' = Append(newdata, Rat(5, 1))
             /\ Len(cache') >= 2
             /\ cache'[1] = <<>>
             /\ cache'[2] = Rat(5, 1)]_vars

\* C7 witness: the empty string was encoded on a miss and is cached with 5
C7_Witness ==
    /\ pc = "parse"
    /\ Returned >= 1
    /\ rows[Returned] = <<>>
    /\ newdata[Returned] = Rat(5, 1)
    /\ Len(cache) >= 2
    /\ cache[1] = <<>>
    /\ cache[2] = Rat(5, 1)

C10_SingleSlot ==
    /\ Len(cache) <= 2
    /\ (pc = "parse" /\ HasPrevious)
         => Len(cache) = 2 /\ cache[1] = PreviousCookie /\ cache[2] = PreviousValue

====
